---- MODULE Spec2Model ----
(***************************************************************************)
(* Model of the necklace-splitting local search: src/src/necklace.py       *)
(* (class Necklace) driven by src/src/localsearch.py (LocalSearch.search). *)
(*                                                                         *)
(* Conventions.  A Python list is a TLA+ sequence, so the Python index k   *)
(* is the sequence index k+1; bead positions and cut positions keep their  *)
(* Python values 0..num_beads.  A score is held exactly, as its numerator  *)
(* over num_thieves (the code divides every type count by num_thieves):    *)
(* score field = num_thieves * (Python score).                             *)
(***************************************************************************)
EXTENDS Integers, Sequences, FiniteSets, TLC

\* ---- bounds of the model ----
MaxBeads == 2
MaxToken == 1
MaxThieves == 2
MaxMove == 1
MaxStop == 1
MaxIter == 1

\* pc             where the run is: "new" (arguments read), "ctor_failed"
\*                (the constructor raised), "ready" (object built), "test"
\*                (at the loop test), "body" (in the loop body), "done"
\*                (search returned), "failed" (search raised)
\* inp            the arguments: the beads as given, whether they are Python
\*                ints, num_thieves, max_move and the time budget
\* obj            LocalSearch.obj, the current Necklace
\* best_solution, best_score, t_end   the locals of search()
\* now            the last reading of time.time()
\* trace          history: the objects that have been current, in order
\* nbr_calls      history: the number of get_neighbors calls
VARIABLES pc, inp, obj, best_solution, best_score, now, t_end, trace, nbr_calls

vars == <<pc, inp, obj, best_solution, best_score, now, t_end, trace, nbr_calls>>

\* ---- arithmetic and list helpers ----
Abs(x) == IF x < 0 THEN 0 - x ELSE x

RECURSIVE SumTo(_, _)
SumTo(f, n) == IF n = 0 THEN 0 ELSE f[n] + SumTo(f, n - 1)

Range(s) == {s[k] : k \in 1..Len(s)}

Count(s, v) == Cardinality({k \in 1..Len(s) : s[k] = v})

\* beads[a:b], a Python slice on positions: empty when a >= b
Slice(s, a, b) == IF a < b THEN SubSeq(s, a + 1, b) ELSE <<>>

\* np.unique: the distinct values in ascending order
RECURSIVE SortedSeq(_)
SortedSeq(S) ==
    IF S = {} THEN <<>>
    ELSE LET m == CHOOSE x \in S : \A y \in S : x <= y
         IN <<m>> \o SortedSeq(S \ {m})

Unique(s) == SortedSeq(Range(s))

\* ---- a Necklace object ----
num_beads(s) == Len(s.beads)

bead_types(s) == Len(Unique(s.beads))

num_cuts(s) == (s.num_thieves - 1) * bead_types(s)

\* int_beads: an all-int list is left as it is, anything else is remapped
\* to the rank of each token in np.unique's (ascending) order
int_beads(beads, is_int) ==
    IF is_int THEN beads
    ELSE LET unique == Unique(beads)
         IN [k \in 1..Len(beads) |->
               (CHOOSE i \in 1..Len(unique) : unique[i] = beads[k]) - 1]

\* get_thief_beads, as the positions collected (a position may repeat)
RECURSIVE ThiefPositionsFrom(_, _, _)
ThiefPositionsFrom(s, thief, i) ==
    LET intervals == <<0>> \o s.cuts \o <<num_beads(s)>>
    IN IF i >= Len(intervals) THEN <<>>
       ELSE (IF s.assignments[i] = thief
             THEN Slice([p \in 1..num_beads(s) |-> p - 1], intervals[i], intervals[i + 1])
             ELSE <<>>) \o ThiefPositionsFrom(s, thief, i + 1)

get_thief_positions(s, thief) == ThiefPositionsFrom(s, thief, 1)

get_thief_beads(s, thief) ==
    LET pos == get_thief_positions(s, thief)
    IN [k \in 1..Len(pos) |-> s.beads[pos[k] + 1]]

\* gen_score: the value stored in self.score, times num_thieves.
\* ThiefTerm is one pass of the inner loop for type index i, ThiefScore the
\* inner loop for one thief.
ThiefTerm(s, unique, thief_beads, i) ==
    IF i \notin Range(thief_beads)
    THEN 2 * s.num_thieves
    ELSE Abs(Count(s.beads, unique[i + 1]) - s.num_thieves * Count(thief_beads, i))

ThiefScore(s, unique, thief) ==
    LET thief_beads == get_thief_beads(s, thief)
        terms == [j \in 1..Len(unique) |-> ThiefTerm(s, unique, thief_beads, j - 1)]
    IN SumTo(terms, Len(unique))

gen_score(s) ==
    LET unique == Unique(s.beads)
        per_thief == [j \in 1..s.num_thieves |-> ThiefScore(s, unique, j - 1)]
    IN SumTo(per_thief, s.num_thieves)

WithScore(s) == [s EXCEPT !.score = gen_score(s)]

\* ---- construction ----
\* gen_cuts: every result sorted(random.sample(range(num_beads), num_cuts))
\* can give; random.sample raises when num_cuts is negative or exceeds
\* num_beads, and then there is no result
gen_cuts(n_beads, n_cuts) ==
    IF n_cuts < 0 \/ n_cuts > n_beads THEN {}
    ELSE {SortedSeq(S) : S \in {T \in SUBSET (0..(n_beads - 1)) : Cardinality(T) = n_cuts}}

\* gen_assignments: entry 0 stays 0, every later entry is drawn from the
\* thieves other than the entry before it; np.zeros raises on a negative
\* length, and then there is no result
gen_assignments(n_thieves, n_cuts) ==
    LET thieves == 0..(IF n_thieves > 1 THEN n_thieves - 1 ELSE 0)
    IN IF n_cuts + 1 < 0 THEN {}
       ELSE {a \in [1..(n_cuts + 1) -> thieves] :
               /\ (n_cuts + 1 >= 1) => a[1] = 0
               /\ \A k \in 2..(n_cuts + 1) : a[k] # a[k - 1]}

\* __init__ with cuts and assignments given (the copy made by get_neighbors)
Necklace(beads, is_int, n_thieves, m_move, cuts, assignments) ==
    WithScore([beads |-> int_beads(beads, is_int), num_thieves |-> n_thieves,
               max_move |-> m_move, cuts |-> cuts, assignments |-> assignments,
               score |-> 0])

\* __init__ with cuts and assignments omitted: every object it can build
NewNecklaces(beads, is_int, n_thieves, m_move) ==
    LET n_cuts == (n_thieves - 1) * Len(Unique(beads))
    IN {Necklace(beads, is_int, n_thieves, m_move, c, a) :
          c \in gen_cuts(Len(beads), n_cuts),
          a \in IF gen_cuts(Len(beads), n_cuts) = {} THEN {}
                ELSE gen_assignments(n_thieves, n_cuts)}

\* __init__ on the arguments i: cuts and assignments are generated where
\* they are omitted (the empty option) and taken as given otherwise; the
\* cuts come first, so that nothing is built once gen_cuts has raised
Necklaces(i) ==
    IF i.cuts = {} /\ i.assignments = {}
    THEN NewNecklaces(i.beads, i.is_int, i.num_thieves, i.max_move)
    ELSE LET n_cuts == (i.num_thieves - 1) * Len(Unique(i.beads))
             cs == IF i.cuts = {} THEN gen_cuts(Len(i.beads), n_cuts) ELSE i.cuts
             as == IF cs = {} THEN {}
                   ELSE IF i.assignments = {} THEN gen_assignments(i.num_thieves, n_cuts)
                   ELSE i.assignments
         IN {Necklace(i.beads, i.is_int, i.num_thieves, i.max_move, c, a) :
               c \in cs, a \in as}

\* CutCandidates without the test "if pos in self.cuts: continue"
CutCandidatesNoSkip(s, i) ==
    LET pos == s.cuts[i]
        right == IF pos - s.max_move > 0 THEN pos - s.max_move ELSE 0
        left == IF pos + s.max_move < num_beads(s) THEN pos + s.max_move ELSE num_beads(s)
    IN SortedSeq(right..(left - 1))

\* CutCandidates with range(right, left + 1) in place of range(right, left)
CutCandidatesInclusive(s, i) ==
    LET pos == s.cuts[i]
        right == IF pos - s.max_move > 0 THEN pos - s.max_move ELSE 0
        left == IF pos + s.max_move < num_beads(s) THEN pos + s.max_move ELSE num_beads(s)
    IN SortedSeq({p \in right..left : p \notin Range(s.cuts)})

\* ---- get_neighbors ----
\* the positions cut i (sequence index) may move to, in range order
CutCandidates(s, i) ==
    LET pos == s.cuts[i]
        right == IF pos - s.max_move > 0 THEN pos - s.max_move ELSE 0
        left == IF pos + s.max_move < num_beads(s) THEN pos + s.max_move ELSE num_beads(s)
    IN SortedSeq({p \in right..(left - 1) : p \notin Range(s.cuts)})

\* CutNeighbor without the assignment "neighbors[-1].cuts[i] = pos"
CutNeighborUnmoved(s, i, p) ==
    LET n == Necklace(s.beads, TRUE, s.num_thieves, s.max_move, s.cuts, s.assignments)
    IN WithScore(n)

\* the copy of s with cut i (sequence index) moved to p and the score
\* computed again
CutNeighbor(s, i, p) ==
    LET n == Necklace(s.beads, TRUE, s.num_thieves, s.max_move, s.cuts, s.assignments)
    IN WithScore([n EXCEPT !.cuts[i] = p])

\* cannot_assign with the slice assignments[prev + 1:prev + 3], which leaves
\* the entry itself out
cannot_assign_others(s, i) ==
    LET prev == IF i - 1 > 0 THEN i - 1 ELSE 0
    IN Slice(s.assignments, prev + 1,
             IF prev + 3 < Len(s.assignments) THEN prev + 3 ELSE Len(s.assignments))

\* the slice assignments[prev:prev + 3] with prev = i (Python index i - 1)
cannot_assign(s, i) ==
    LET prev == IF i - 1 > 0 THEN i - 1 ELSE 0
    IN Slice(s.assignments, prev,
             IF prev + 3 < Len(s.assignments) THEN prev + 3 ELSE Len(s.assignments))

AssignCandidates(s, i) ==
    SortedSeq({thief \in 0..(s.num_thieves - 1) : thief \notin Range(cannot_assign(s, i))})

\* AssignNeighbor without the call "neighbors[-1].gen_score()" after the
\* write: the score is the one __init__ computed on the copy
AssignNeighborStale(s, i, thief) ==
    LET n == Necklace(s.beads, TRUE, s.num_thieves, s.max_move, s.cuts, s.assignments)
    IN [n EXCEPT !.assignments[i] = thief]

\* the copy of s with entry i (sequence index) given to thief and the score
\* computed again
AssignNeighbor(s, i, thief) ==
    LET n == Necklace(s.beads, TRUE, s.num_thieves, s.max_move, s.cuts, s.assignments)
    IN WithScore([n EXCEPT !.assignments[i] = thief])

RECURSIVE CutMovesFrom(_, _)
CutMovesFrom(s, i) ==
    IF i > num_cuts(s) THEN <<>>
    ELSE LET c == CutCandidates(s, i)
         IN [k \in 1..Len(c) |-> CutNeighbor(s, i, c[k])] \o CutMovesFrom(s, i + 1)

RECURSIVE AssignMovesFrom(_, _)
AssignMovesFrom(s, i) ==
    IF i > Len(s.assignments) THEN <<>>
    ELSE LET c == AssignCandidates(s, i)
         IN [k \in 1..Len(c) |-> AssignNeighbor(s, i, c[k])] \o AssignMovesFrom(s, i + 1)

get_neighbors(s) == CutMovesFrom(s, 1) \o AssignMovesFrom(s, 1)

\* ---- LocalSearch.search ----
\* sorted(neighbors, key=score): stable, ties keep the generation order
RECURSIVE SortByScore(_)
SortByScore(seq) ==
    IF seq = <<>> THEN <<>>
    ELSE LET x == seq[Len(seq)]
             front == SortByScore(SubSeq(seq, 1, Len(seq) - 1))
             keep == Cardinality({k \in 1..Len(front) : front[k].score <= x.score})
         IN SubSeq(front, 1, keep) \o <<x>> \o SubSeq(front, keep + 1, Len(front))

\* the loop condition written time.time() <= t_end
DeadlineNotPassedInclusive(t, deadline) == t <= deadline

\* the loop condition time.time() < t_end
DeadlineNotPassed(t, deadline) == t < deadline

\* the update test dropped: the best is replaced by every new current state
IsBetterAlways(score, best) == TRUE

\* IsBetter with "<=" in place of "<"
IsBetterOrEqual(score, best) == score <= best

\* the update test self.obj.score < best_score
IsBetter(score, best) == score < best

\* the failed draw swallowed, so that the loop goes on to its next test
AfterChoiceRetry(neighbors) == "test"

\* where control goes after np.random.choice(neighbors, 1, p=p): the call
\* raises on an empty list, and the exception leaves search()
AfterChoice(neighbors) == IF neighbors = <<>> THEN "failed" ELSE "test"

\* Draws that only ever gives the first rank, the neighbor of least score
DrawsBestOnly(neighbors) == {r \in 1..Len(neighbors) : r = 1}

\* the ranks np.random.choice can return: rank i has the weight (1 / i) ** 2
\* over the sum of the weights, which is positive for every rank
Draws(neighbors) == 1..Len(neighbors)

None == [beads |-> <<>>, num_thieves |-> 0, max_move |-> 0, cuts |-> <<>>,
         assignments |-> <<>>, score |-> 0]

\* the arguments of a run: beads of at most max_beads tokens, a thief
\* count, a move distance of at most max_mv, a zero or a positive budget,
\* and cuts and assignments omitted (an option is the empty set when the
\* argument is None and the set of the one value given otherwise)
InputsUpTo(max_beads, max_mv) ==
    [beads : UNION {[1..n -> 0..MaxToken] : n \in 0..max_beads},
     is_int : BOOLEAN,
     num_thieves : 0..MaxThieves,
     max_move : 0..max_mv,
     stop : {0, MaxStop},
     cuts : {{}},
     assignments : {{}}]

Inputs == InputsUpTo(MaxBeads, MaxMove)

\* one more bead and one more step of move distance
WideInputs == InputsUpTo(MaxBeads + 1, MaxMove + 1)

Started ==
    /\ pc = "new"
    /\ obj = None
    /\ best_solution = None
    /\ best_score = 0
    /\ now = 0
    /\ t_end = 0
    /\ trace = <<>>
    /\ nbr_calls = 0

Init == inp \in Inputs /\ Started

WideInit == inp \in WideInputs /\ Started

\* the arguments with cuts and assignments omitted or given: given cuts
\* are as many positions of the beads as num_cuts asks for (none when it is
\* negative), a given assignment array has one entry more than that
SeededInputs ==
    UNION {LET n_cuts == (i.num_thieves - 1) * Len(Unique(i.beads))
               len == IF n_cuts > 0 THEN n_cuts ELSE 0
               thieves == 0..(IF i.num_thieves > 1 THEN i.num_thieves - 1 ELSE 0)
           IN {[i EXCEPT !.cuts = c, !.assignments = a] :
                 c \in {{}} \cup {{x} : x \in [1..len -> 0..(Len(i.beads) - 1)]},
                 a \in {{}} \cup {{x} : x \in [1..(len + 1) -> thieves]}}
           : i \in Inputs}

SeededInit == inp \in SeededInputs /\ Started

\* the arguments of the run on the beads 0,1,0,1 with two thieves and
\* max_move 4, given as integers or as the characters of "0101"
ScenarioInputs ==
    [beads : {<<0, 1, 0, 1>>},
     is_int : BOOLEAN,
     num_thieves : {2},
     max_move : {4},
     stop : {0, MaxStop},
     cuts : {{}},
     assignments : {{}}]

ScenarioInit == inp \in ScenarioInputs /\ Started

\* n = Necklace(beads, num_thieves, max_move); LocalSearch(n)
Construct ==
    /\ pc = "new"
    /\ LET made == Necklaces(inp)
       IN IF made = {}
          THEN /\ pc' = "ctor_failed"
               /\ UNCHANGED <<obj, trace>>
          ELSE /\ \E n \in made : obj' = n /\ trace' = <<n>>
               /\ pc' = "ready"
    /\ UNCHANGED <<inp, best_solution, best_score, now, t_end, nbr_calls>>

\* search(stop), up to the loop
StartSearch ==
    /\ pc = "ready"
    /\ t_end' = now + inp.stop
    /\ best_solution' = obj
    /\ best_score' = obj.score
    /\ pc' = "test"
    /\ UNCHANGED <<inp, obj, now, trace, nbr_calls>>

\* the loop test, and the return once it fails; a clock reading at or past
\* the deadline is represented by the deadline itself
LoopTest ==
    /\ pc = "test"
    /\ \E t \in now..t_end :
         /\ now' = t
         /\ IF DeadlineNotPassed(t, t_end)
            THEN /\ Len(trace) - 1 < MaxIter
                 /\ pc' = "body"
                 /\ obj' = obj
            ELSE /\ pc' = "done"
                 /\ obj' = best_solution
    /\ UNCHANGED <<inp, best_solution, best_score, t_end, trace, nbr_calls>>

\* one pass of the loop body
Iterate ==
    /\ pc = "body"
    /\ nbr_calls' = nbr_calls + 1
    /\ LET neighbors == SortByScore(get_neighbors(obj))
       IN /\ pc' = AfterChoice(neighbors)
          /\ IF neighbors = <<>>
             THEN UNCHANGED <<obj, best_solution, best_score, trace>>
             ELSE \E r \in Draws(neighbors) :
                    /\ obj' = neighbors[r]
                    /\ trace' = Append(trace, neighbors[r])
                    /\ IF IsBetter(neighbors[r].score, best_score)
                       THEN /\ best_solution' = neighbors[r]
                            /\ best_score' = neighbors[r].score
                       ELSE UNCHANGED <<best_solution, best_score>>
    /\ UNCHANGED <<inp, now, t_end>>

Next == Construct \/ StartSearch \/ LoopTest \/ Iterate

Spec == Init /\ [][Next]_vars

\* the same program on the wider inputs
WideSpec == WideInit /\ [][Next]_vars

\* the same program with cuts and assignments omitted or given
SeededSpec == SeededInit /\ [][Next]_vars

\* the same program on the beads 0,1,0,1
ScenarioSpec == ScenarioInit /\ [][Next]_vars

\* ---- the numpy implementation (npnecklace.py): construction ----
\* gen_cuts: np.sort(np.random.choice(num_beads, num_cuts)) draws with
\* replacement; choice raises on a negative size, and then there is no result
np_gen_cuts(n_beads, n_cuts) ==
    IF n_cuts < 0 THEN {}
    ELSE {c \in [1..n_cuts -> 0..(n_beads - 1)] :
            \A k \in 1..(n_cuts - 1) : c[k] <= c[k + 1]}

\* np.random.choice(0, 0) raises in some releases of numpy and returns the
\* empty array in others
np_choice_may_raise(n_beads, n_cuts) == n_beads = 0 /\ n_cuts = 0

\* gen_assignments is the code of necklace.py
np_gen_assignments(n_thieves, n_cuts) == gen_assignments(n_thieves, n_cuts)

\* get_thief_beads raises for a thief who is assigned no interval:
\* np.concatenate gets an empty list
np_score_raises(s) ==
    \E thief \in 0..(s.num_thieves - 1) : thief \notin Range(s.assignments)

\* gen_score: the value stored in self.score, times num_thieves: the sum
\* over thieves and over the types 0..bead_types - 1 of
\* |thief_counts - perfect_bead_split|
np_gen_score(s) ==
    LET unique == Unique(s.beads)
        term(thief, i) == Abs(Count(s.beads, unique[i + 1])
                              - s.num_thieves * Count(get_thief_beads(s, thief), i))
        per_thief == [j \in 1..s.num_thieves |->
                        SumTo([i \in 1..Len(unique) |-> term(j - 1, i - 1)], Len(unique))]
    IN SumTo(per_thief, s.num_thieves)

\* __init__ with cuts and assignments omitted: every object it can build
np_Necklaces(beads, is_int, n_thieves, m_move) ==
    LET ints == int_beads(beads, is_int)
        n_cuts == (n_thieves - 1) * Len(Unique(beads))
        cs == np_gen_cuts(Len(beads), n_cuts)
        as == IF cs = {} THEN {} ELSE np_gen_assignments(n_thieves, n_cuts)
        raw == {[beads |-> ints, num_thieves |-> n_thieves, max_move |-> m_move,
                 cuts |-> c, assignments |-> a, score |-> 0] : c \in cs, a \in as}
    IN {[s EXCEPT !.score = np_gen_score(s)] : s \in {x \in raw : ~np_score_raises(x)}}

\* n = Necklace(beads, num_thieves, max_move) of npnecklace.py
NpConstruct ==
    /\ pc = "new"
    /\ LET made == np_Necklaces(inp.beads, inp.is_int, inp.num_thieves, inp.max_move)
           n_cuts == (inp.num_thieves - 1) * Len(Unique(inp.beads))
       IN \/ /\ made = {} \/ np_choice_may_raise(Len(inp.beads), n_cuts)
             /\ pc' = "ctor_failed"
             /\ UNCHANGED <<obj, trace>>
          \/ /\ \E n \in made : obj' = n /\ trace' = <<n>>
             /\ pc' = "ready"
    /\ UNCHANGED <<inp, best_solution, best_score, now, t_end, nbr_calls>>

NpNext == NpConstruct

\* the construction of the numpy implementation on the inputs of Spec
NpSpec == Init /\ [][NpNext]_vars

\* ---- properties ----
\* a Necklace object exists (the constructor returned)
Built == pc \in {"ready", "test", "body", "done", "failed"}

Thieves(s) == 0..(s.num_thieves - 1)

\* the number of beads of a type in a thief's list
Observed(s, thief, type) == Count(get_thief_beads(s, thief), type)

\* sum over thieves and types of |count[type] - num_thieves * observed|,
\* the plain deviation times num_thieves
FormulaScore(s) ==
    LET types == Unique(s.beads)
        k == Len(types)
        terms == [j \in 1..(s.num_thieves * k) |->
                    Abs(Count(s.beads, types[((j - 1) % k) + 1])
                        - s.num_thieves * Observed(s, (j - 1) \div k, types[((j - 1) % k) + 1]))]
    IN SumTo(terms, s.num_thieves * k)

NoAdjacentEqual(a) == \A k \in 1..(Len(a) - 1) : a[k] # a[k + 1]

\* C1: the thieves' bead lists of the current object cover the bead
\* positions exactly: every position 0..num_beads-1 lies in exactly one
\* place of one thief's list, and the lengths of the lists sum to num_beads.
C1_ExactCover ==
    Built =>
      LET lists == [t \in Thieves(obj) |-> get_thief_positions(obj, t)]
          places(p) == {<<t, k>> \in Thieves(obj) \X (1..(2 * num_beads(obj))) :
                          k <= Len(lists[t]) /\ lists[t][k] = p}
          lens == [j \in 1..obj.num_thieves |-> Len(lists[j - 1])]
      IN /\ \A p \in 0..(num_beads(obj) - 1) : Cardinality(places(p)) = 1
         /\ SumTo(lens, obj.num_thieves) = num_beads(obj)

\* C2: the cut positions of the current object are in ascending order.
C2_CutsSorted ==
    Built => \A i, j \in 1..Len(obj.cuts) : i < j => obj.cuts[i] < obj.cuts[j]

CutsValid(s) ==
    /\ Len(s.cuts) = num_cuts(s)
    /\ \A i, j \in 1..Len(s.cuts) : i # j => s.cuts[i] # s.cuts[j]
    /\ \A i \in 1..Len(s.cuts) : s.cuts[i] \in 0..(num_beads(s) - 1)

\* C3: the current object has exactly num_cuts cut positions, pairwise
\* distinct and each in [0, num_beads), and so has every neighbor that
\* get_neighbors returns for it.
C3_CutsDistinctInRange ==
    Built =>
      /\ CutsValid(obj)
      /\ LET nb == get_neighbors(obj)
         IN \A k \in 1..Len(nb) : CutsValid(nb[k])

\* C3 witness: the current object was reached by a cut move
C3_Witness ==
    /\ pc = "test"
    /\ Len(trace) >= 2
    /\ trace[Len(trace)].cuts # trace[Len(trace) - 1].cuts

\* the thieves the claim forbids at index i: the base assignments at
\* i-1 (when it exists), i, and i+1 (when it exists)
ForbiddenWindow(a, i) ==
    {a[k] : k \in {j \in {i - 1, i, i + 1} : j >= 1 /\ j <= Len(a)}}

\* C4: for every index i of the assignments, the assignment-change
\* neighbors emitted for i are exactly one per thief outside the window
\* {assignments[i-1], assignments[i], assignments[i+1]}: none of them gives
\* i a thief of the window, and every thief outside it is emitted.
C4_AssignWindow ==
    Built =>
      LET family == Range(AssignMovesFrom(obj, 1))
          a == obj.assignments
      IN \A i \in 1..Len(a) :
           /\ \A n \in family :
                (n.assignments[i] # a[i]) => n.assignments[i] \notin ForbiddenWindow(a, i)
           /\ \A thief \in Thieves(obj) \ ForbiddenWindow(a, i) :
                \E n \in family : n.assignments = [a EXCEPT ![i] = thief]

\* C5: when no two adjacent partitions of the current object have the same
\* thief, no two adjacent partitions of any of its neighbors have.
C5_AdjacencyKept ==
    (Built /\ NoAdjacentEqual(obj.assignments)) =>
      LET nb == get_neighbors(obj)
      IN \A k \in 1..Len(nb) : NoAdjacentEqual(nb[k].assignments)

\* C6: the score of the current object is the sum over all thieves and all
\* bead types of |count[type] / num_thieves - observed[thief, type]|, a type
\* the thief holds no bead of counting as observed 0.
C6_ScoreIsFormula == Built => obj.score = FormulaScore(obj)

\* C7: the score is never negative, and it is 0 exactly when every thief
\* holds count[type] / num_thieves beads of every type.
C7_ZeroIffIdeal ==
    Built =>
      /\ obj.score >= 0
      /\ (obj.score = 0) <=>
           \A thief \in Thieves(obj) : \A type \in Range(obj.beads) :
              obj.num_thieves * Observed(obj, thief, type) = Count(obj.beads, type)

\* C8: the object search returns is one of the objects that were current
\* (the initial one included), no object that was current has a lower
\* score, and it is not the last current object when an earlier one was
\* strictly better than that.
C8_ReturnsBestVisited ==
    (pc = "done") =>
      /\ obj \in Range(trace)
      /\ \A k \in 1..Len(trace) : obj.score <= trace[k].score
      /\ (\E k \in 1..Len(trace) : trace[k].score < trace[Len(trace)].score)
            => obj # trace[Len(trace)]

\* C8 witness: search returned although the last current object was worse
\* than an earlier one
C8_Witness ==
    /\ pc = "done"
    /\ Len(trace) >= 2
    /\ obj.score < trace[Len(trace)].score

\* C9: with a time budget of 0 the loop body is never entered,
\* get_neighbors is never called, and search returns the initial object.
C9_ZeroBudget ==
    (Built /\ inp.stop = 0) =>
      /\ pc \notin {"body", "failed"}
      /\ nbr_calls = 0
      /\ trace = <<trace[1]>>
      /\ pc = "done" => (obj = trace[1] /\ obj.score = trace[1].score)

\* C9 witness: search returned under budget 0 from an object that has no
\* neighbor
C9_Witness ==
    /\ pc = "done"
    /\ inp.stop = 0
    /\ get_neighbors(obj) = <<>>

\* C10: a pass of the loop body that finds the neighbor list empty ends
\* the run in a failure in that pass: nothing becomes current or best, and
\* the failed run takes no further step and returns nothing.
C10_EmptyNeighborsFail ==
    [][/\ (pc = "body" /\ get_neighbors(obj) = <<>>) =>
            (pc' = "failed" /\ obj' = obj /\ trace' = trace
             /\ best_solution' = best_solution)
       /\ (pc = "failed") => (pc' = "failed")]_vars

\* C10 witness: a run that failed on an empty neighbor list
C10_Witness ==
    /\ pc = "failed"
    /\ get_neighbors(obj) = <<>>
    /\ nbr_calls = 1

\* the rank of each token in order of first appearance, as the claim has it
RECURSIVE FirstSeen(_)
FirstSeen(s) ==
    IF s = <<>> THEN <<>>
    ELSE LET front == FirstSeen(SubSeq(s, 1, Len(s) - 1))
         IN IF s[Len(s)] \in Range(front) THEN front ELSE Append(front, s[Len(s)])

FirstSeenRemap(s) ==
    LET order == FirstSeen(s)
    IN [k \in 1..Len(s) |-> (CHOOSE i \in 1..Len(order) : order[i] = s[k]) - 1]

\* C11: the beads of an object built from a non-empty input are the input
\* with every token replaced by its rank in order of first appearance: the
\* values are exactly 0..bead_types-1 and the first bead is 0, also when the
\* tokens are integers already.
C11_FirstAppearanceRank ==
    (pc = "ready" /\ inp.beads # <<>>) =>
      /\ obj.beads = FirstSeenRemap(inp.beads)
      /\ Range(obj.beads) = 0..(bead_types(obj) - 1)
      /\ obj.beads[1] = 0

\* C13: no object is built from an empty bead sequence.
C13_EmptyRejected == (inp.beads = <<>>) => ~Built

\* C14: an object built from a non-empty sequence for one thief has no cut,
\* the assignments [0], and the score 0.
C14_OneThief ==
    (pc = "ready" /\ inp.beads # <<>> /\ inp.num_thieves = 1) =>
      /\ num_cuts(obj) = 0
      /\ obj.cuts = <<>>
      /\ obj.assignments = <<0>>
      /\ obj.score = 0

\* C12: no object is built when num_thieves < 1 or when
\* num_cuts = (num_thieves - 1) * bead_types lies outside [0, num_beads],
\* whether cuts and assignments are omitted or given.
C12_ConfigRejected ==
    LET n_cuts == (inp.num_thieves - 1) * Len(Unique(inp.beads))
    IN (inp.num_thieves < 1 \/ n_cuts < 0 \/ n_cuts > Len(inp.beads)) => ~Built

\* the objects reached from the objects of seen by neighbor moves, where
\* frontier holds the objects of seen whose neighbors are still to be taken
RECURSIVE ReachFrom(_, _)
ReachFrom(seen, frontier) ==
    IF frontier = {} THEN seen
    ELSE LET nxt == UNION {Range(get_neighbors(s)) : s \in frontier} \ seen
         IN ReachFrom(seen \cup nxt, nxt)

\* score 0 on properly placed cuts, each thief holding one 0 and one 1
EvenSplit(s) ==
    /\ s.score = 0
    /\ CutsValid(s)
    /\ \A i \in 1..(Len(s.cuts) - 1) : s.cuts[i] < s.cuts[i + 1]
    /\ \A thief \in Thieves(s) : \A type \in {0, 1} : Observed(s, thief, type) = 1

\* C15: on the beads 0,1,0,1 with two thieves and max_move 4, from every
\* object the constructor can return, an object of score 0 in which each
\* thief holds exactly one 0 and one 1 is reached by finitely many neighbor
\* moves.
C15_ScenarioSolvable ==
    (pc = "ready" /\ inp \in ScenarioInputs) =>
        \E s \in ReachFrom({obj}, {obj}) : EvenSplit(s)

\* the search has returned such an object after starting from a worse one
C15_Witness ==
    /\ pc = "done"
    /\ inp \in ScenarioInputs
    /\ Len(trace) >= 2
    /\ trace[1].score > 0
    /\ EvenSplit(obj)

\* the positions the claim allows cut i of s to move to
CutTargets(s, i) ==
    LET p == s.cuts[i]
        lo == IF p - s.max_move > 0 THEN p - s.max_move ELSE 0
        hi == IF p + s.max_move < num_beads(s) THEN p + s.max_move ELSE num_beads(s)
    IN {q \in 0..num_beads(s) : lo <= q /\ q < hi /\ \A j \in 1..Len(s.cuts) : s.cuts[j] # q}

\* f is s with cut i at q and nothing else of the configuration changed
IsCutMove(s, f, i, q) ==
    /\ f.cuts = [s.cuts EXCEPT ![i] = q]
    /\ f.assignments = s.assignments
    /\ f.beads = s.beads
    /\ f.num_thieves = s.num_thieves
    /\ f.max_move = s.max_move

\* the loop test: every object that is current at some time is current at a
\* loop test, the first one after the search starts and every one after a move
AtLoopTest == pc = "test"

\* C17: the cut moves of the current object are exactly one neighbor for
\* every cut index i and every position q of [max(0, p - max_move),
\* min(num_beads, p + max_move)) that is no cut of the object, with cut i
\* at q and the assignments kept; the object's own cuts are never emitted
\* again, and with max_move = 0 there is no cut move.
C17_CutMoveFamily ==
    AtLoopTest =>
        LET family == CutMovesFrom(obj, 1)
            cut_ix == 1..num_cuts(obj)
        IN /\ \A k \in 1..Len(family) :
                \E i \in cut_ix : \E q \in CutTargets(obj, i) :
                    IsCutMove(obj, family[k], i, q)
           /\ \A i \in cut_ix : \A q \in CutTargets(obj, i) :
                Cardinality({k \in 1..Len(family) : IsCutMove(obj, family[k], i, q)}) = 1
           /\ \A k \in 1..Len(family) : family[k].cuts # obj.cuts
           /\ (obj.max_move = 0) => (family = <<>>)

\* an object reached by a move, with some cut moves but fewer than
\* 2 * max_move for each cut
C17_Witness ==
    /\ pc = "test"
    /\ num_cuts(obj) > 0
    /\ Len(trace) >= 2
    /\ Len(CutMovesFrom(obj, 1)) > 0
    /\ Len(CutMovesFrom(obj, 1)) <
         SumTo([i \in 1..num_cuts(obj) |-> 2 * obj.max_move], num_cuts(obj))

\* the indices at which two sequences of one length differ
DiffAt(a, b) == {k \in 1..Len(a) : a[k] # b[k]}

\* f has the configuration of s but for exactly one entry of its cuts or
\* exactly one entry of its assignments
OneEntryApart(s, f) ==
    /\ f.beads = s.beads
    /\ f.num_thieves = s.num_thieves
    /\ f.max_move = s.max_move
    /\ Len(f.cuts) = Len(s.cuts)
    /\ Len(f.assignments) = Len(s.assignments)
    /\ Cardinality(DiffAt(s.cuts, f.cuts)) + Cardinality(DiffAt(s.assignments, f.assignments)) = 1

Searching == pc \in {"test", "body", "done", "failed"}

\* C19: the cached score of the current object, of each of its neighbors
\* and of the best object kept is the score computed from that object's own
\* cuts and assignments.
C19_CachedScoreFresh ==
    /\ Built => obj.score = gen_score(obj)
    /\ AtLoopTest =>
         LET neighbors == get_neighbors(obj)
         IN \A k \in 1..Len(neighbors) : neighbors[k].score = gen_score(neighbors[k])
    /\ Searching =>
         /\ best_solution.score = gen_score(best_solution)
         /\ best_score = best_solution.score

\* the current object was reached by a move that changed the score
C19_Witness ==
    /\ pc = "test"
    /\ Len(trace) >= 2
    /\ obj.score # trace[Len(trace) - 1].score
    /\ \E k \in 1..Len(get_neighbors(obj)) : get_neighbors(obj)[k].score # obj.score

\* C20: in every iteration with a non-empty neighbor list, the objects the
\* draw can return are all the neighbors of the current object, whatever
\* their scores, and the step taken makes one of them current: the object
\* never stays the same.
C20_UnconditionalMove ==
    /\ [](pc = "body" =>
            LET ranked == SortByScore(get_neighbors(obj))
            IN {ranked[r] : r \in Draws(ranked)} = Range(get_neighbors(obj)))
    /\ [][(pc = "body" /\ get_neighbors(obj) # <<>>) =>
            /\ obj' \in Range(get_neighbors(obj))
            /\ obj' # obj
            /\ trace' = Append(trace, obj')]_vars

\* the search has moved to an object of strictly worse score
C20_Witness ==
    /\ pc = "test"
    /\ Len(trace) >= 2
    /\ obj = trace[Len(trace)]
    /\ obj.score > trace[Len(trace) - 1].score

\* C21: when cuts are omitted, the object the constructor returns has
\* exactly num_cuts cuts, pairwise distinct, in [0, num_beads) and in
\* ascending order.
C21_FreshCutsDistinctSorted ==
    (pc = "ready" /\ inp.cuts = {}) =>
        /\ Len(obj.cuts) = num_cuts(obj)
        /\ \A i \in 1..Len(obj.cuts) : obj.cuts[i] \in 0..(num_beads(obj) - 1)
        /\ \A i, j \in 1..Len(obj.cuts) : i < j => obj.cuts[i] < obj.cuts[j]

\* the first place in the visited objects where their least score is found
EarliestMin ==
    CHOOSE k \in 1..Len(trace) :
        /\ \A j \in 1..Len(trace) : trace[k].score <= trace[j].score
        /\ \A j \in 1..(k - 1) : trace[j].score > trace[k].score

\* C22: during search the best score never increases, the best object is
\* replaced only by a new current object of strictly lower score, and so
\* the best object, and the object returned, is the earliest visited object
\* of least score: a later object of equal score does not replace it.
C22_BestMonotoneEarliest ==
    /\ [](Searching =>
            /\ best_solution = trace[EarliestMin]
            /\ best_score = best_solution.score)
    /\ [](pc = "done" => obj = trace[EarliestMin])
    /\ [][Searching =>
            /\ best_score' <= best_score
            /\ (best_solution' # best_solution) =>
                  /\ best_solution' = obj'
                  /\ obj'.score < best_score
                  /\ best_score' = obj'.score]_vars

\* search returned the first visited object although a later, different
\* one had the same, least, score
C22_Witness ==
    /\ pc = "done"
    /\ obj.beads # <<>>
    /\ obj = trace[EarliestMin]
    /\ \E k \in (EarliestMin + 1)..Len(trace) :
         /\ trace[k].score = obj.score
         /\ trace[k] # obj

====
